---- MODULE Spec2Model ----
(***************************************************************************)
(* Model of steam_download_monitor.py: root resolution, the polling loop   *)
(* of main(), the activity detector, the manifest metric lookup, the       *)
(* delta/rate/status computation and the two per-appid state stores.       *)
(* The file system is owned by the external client: every read draws its   *)
(* result from the outcomes that read can have.                            *)
(***************************************************************************)
EXTENDS Integers, Sequences, FiniteSets, TLC

\* ------------------------------------------------------------------ bounds
MaxBytes == 1

\* --------------------------------------------------------------- constants
interval == 60
repeats == 5

\* ------------------------------------------------------------- input sets
\* directory names that can show up under steamapps/downloading
AppIds == {"1", "2"}
Entries == AppIds \cup {"tmp"}

\* str.isdigit() of a directory name
NameIsDigit(n) == n \in AppIds

\* manifest keys the enumerated manifests may contain
ManifestKeys == {"BytesDownloaded", "BytesToDownload"}

\* raw manifest values: decimal digits ("dec"), any other text ("text"),
\* and digit characters that int() rejects, such as a superscript two ("sup")
RawValues == [t : {"dec"}, n : 0..MaxBytes] \cup [t : {"text"}, n : {0}]
Superscript == [t |-> "sup", n |-> 0]

\* BytesToDownload is the total: unreadable text, or the full size
TotalValues == {[t |-> "text", n |-> 0], [t |-> "dec", n |-> MaxBytes]}

\* manifests int() can read, and manifests with one value it cannot
Manifests ==
  {m \in UNION {[D -> RawValues] : D \in SUBSET ManifestKeys} :
     "BytesToDownload" \in DOMAIN m => m["BytesToDownload"] \in TotalValues}
BadManifests ==
  {[m EXCEPT ![k] = Superscript] : m \in [ManifestKeys -> RawValues],
                                   k \in ManifestKeys}

\* what one candidate directory can look like to the scan
ScanOutcomes == {"absent", "empty", "nonempty", "error"}
Listings == {l \in [Entries -> ScanOutcomes] : l["tmp"] = "nonempty"}

\* directory iteration orders
Orders ==
  {s \in [1..Cardinality(Entries) -> Entries] :
     \A x \in Entries : \E k \in DOMAIN s : s[k] = x}

\* content_log.txt as read by detect_pause_via_logs
LogStates == {"absent", "other", "pause"}

VARIABLES
  pc,                    \* position of main()
  steam_root,            \* "unset", "none" or "path"
  i,                     \* loop index of the polling loop
  polls,                 \* polls started
  sleeps,                \* sleeps performed
  listing,               \* what the scan of this step saw, if it was one
  active,                \* list returned by detect_active_downloads
  idx,                   \* position of the for loop over active
  prev_manifest_metric,  \* appid -> bytes
  prev_folder_size,      \* appid -> bytes
  out,                   \* the status line this step printed, if any
  last,                  \* appid -> its previous observation
  logFresh               \* a non-empty log read happened since the last sleep

vars == <<pc, steam_root, i, polls, sleeps, listing, active, idx,
          prev_manifest_metric, prev_folder_size, out, last, logFresh>>

\* ---------------------------------------------------------------- helpers
EmptyDict == [x \in {} |-> 0]

\* Get with a default of 0 in place of the current value
GetZero(d, k, default) == IF k \in DOMAIN d THEN d[k] ELSE 0

\* dict.get(k, default)
Get(d, k, default) == IF k \in DOMAIN d THEN d[k] ELSE default

\* Put that rebuilds the dict from the one entry written
PutEvict(d, k, v) == [x \in {k} |-> v]

\* Put that writes only a value larger than the stored one
PutIfGreater(d, k, v) ==
  IF k \in DOMAIN d /\ v <= d[k] THEN d
  ELSE [x \in (DOMAIN d) \cup {k} |-> IF x = k THEN v ELSE d[x]]

\* d[k] = v
Put(d, k, v) == [x \in (DOMAIN d) \cup {k} |-> IF x = k THEN v ELSE d[x]]

\* Delta without the clamp at 0
DeltaSigned(cur, prev) == cur - prev

\* max(0, cur - prev)
Delta(cur, prev) == IF cur - prev > 0 THEN cur - prev ELSE 0

\* SpeedBps with the rate forced to 0
SpeedBpsStale(delta) == [num |-> 0, den |-> interval]

\* delta / interval, kept as an exact fraction
SpeedBps(delta) == [num |-> delta, den |-> interval]

Positive(r) == r.num * r.den > 0

\* str.isdigit()
IsDigit(v) == v.t \in {"dec", "sup"}

\* candidates without the two fallback keys
candidatesPrimary ==
  <<"BytesDownloaded", "bytesdownloaded", "DownloadedBytes",
    "downloaded_bytes">>

\* the keys get_downloaded_bytes_from_manifest tries, in order
candidates ==
  <<"BytesDownloaded", "bytesdownloaded", "DownloadedBytes",
    "downloaded_bytes", "BytesToDownload", "SizeOnDisk">>

RECURSIVE FirstNumeric(_, _)
FirstNumeric(kv, k) ==
  IF k > Len(candidates) THEN [res |-> "none", val |-> 0, key |-> "none"]
  ELSE IF candidates[k] \in DOMAIN kv /\ IsDigit(kv[candidates[k]])
       THEN IF kv[candidates[k]].t = "dec"
            THEN [res |-> "val", val |-> kv[candidates[k]].n,
                  key |-> candidates[k]]
            ELSE [res |-> "raise", val |-> 0, key |-> candidates[k]]
       ELSE FirstNumeric(kv, k + 1)

get_downloaded_bytes_from_manifest(kv) == FirstNumeric(kv, 1)

\* HasAny with has_any = False in the except clause
HasAnyErrFalse(o) == o = "nonempty"

\* any(item.rglob("*")) with its except clause
HasAny(o) ==
  CASE o = "nonempty" -> TRUE
    [] o = "error" -> TRUE
    [] OTHER -> FALSE

\* item.is_dir() and item.name.isdigit() and has_any
Eligible(l, n) ==
  /\ l[n] \in {"empty", "nonempty", "error"}
  /\ NameIsDigit(n)
  /\ HasAny(l[n])

RECURSIVE Filter(_, _, _)
Filter(ord, l, k) ==
  IF k > Len(ord) THEN <<>>
  ELSE IF Eligible(l, ord[k]) THEN <<ord[k]>> \o Filter(ord, l, k + 1)
       ELSE Filter(ord, l, k + 1)

detect_active_downloads(l, ord) == Filter(ord, l, 1)

\* detect_pause_via_logs
detect_pause_via_logs(log) == log = "pause"

\* Status with speed_bps >= 0 as the test
StatusNonStrict(speed_bps, paused_by_logs) ==
  IF speed_bps.num * speed_bps.den >= 0 THEN "downloading"
  ELSE IF paused_by_logs THEN "paused" ELSE "idle/paused"

\* status selection of main()
Status(speed_bps, paused_by_logs) ==
  IF Positive(speed_bps) THEN "downloading"
  ELSE IF paused_by_logs THEN "paused" ELSE "idle/paused"

Range(s) == {s[k] : k \in DOMAIN s}

NoLine ==
  [appid |-> "none", source |-> "", key |-> "none", value |-> 0,
   prev |-> 0, delta |-> 0, speed |-> SpeedBps(0), status |-> "", paused |-> FALSE,
   primary |-> FALSE, anyKey |-> FALSE]

NoScan == [n \in Entries |-> "absent"]

NoObs == [source |-> "", key |-> "none", value |-> 0]

\* ------------------------------------------------------------------- Init
Init ==
  /\ pc = "start"
  /\ steam_root = "unset"
  /\ i = 0
  /\ polls = 0
  /\ sleeps = 0
  /\ listing = NoScan
  /\ active = <<>>
  /\ idx = 1
  /\ prev_manifest_metric = EmptyDict
  /\ prev_folder_size = EmptyDict
  /\ out = NoLine
  /\ last = [a \in AppIds |-> NoObs]
  /\ logFresh = FALSE

\* ---------------------------------------------------------------- actions
\* main(): STEAM_ROOT override, then find_steam_root()
ResolveRoot ==
  /\ pc = "start"
  /\ \E envOK \in BOOLEAN, found \in BOOLEAN :
       IF envOK \/ found
       THEN /\ steam_root' = "path"
            /\ pc' = "detect"
       ELSE /\ steam_root' = "none"
            /\ pc' = "nosteam"
  /\ UNCHANGED <<i, polls, sleeps, listing, active, idx,
                 prev_manifest_metric, prev_folder_size, out, last, logFresh>>

\* top of one loop iteration: active = detect_active_downloads(steam_root)
\* when steamapps/downloading does not exist
DetectMissing ==
  /\ pc = "detect"
  /\ polls' = polls + 1
  /\ listing' = NoScan
  /\ active' = <<>>
  /\ idx' = 1
  /\ pc' = "scanned"
  /\ out' = NoLine
  /\ UNCHANGED <<steam_root, i, sleeps, prev_manifest_metric,
                 prev_folder_size, last, logFresh>>

\* downloading.exists() held but the enumeration of the directory raised
DetectRaises ==
  /\ pc = "detect"
  /\ polls' = polls + 1
  /\ pc' = "crashed"
  /\ out' = NoLine
  /\ listing' = NoScan
  /\ UNCHANGED <<steam_root, i, sleeps, active, idx,
                 prev_manifest_metric, prev_folder_size, last, logFresh>>

\* the scan of steamapps/downloading ran to its end
DetectScan ==
  /\ pc = "detect"
  /\ \E l \in Listings, ord \in Orders :
       /\ listing' = l
       /\ active' = detect_active_downloads(l, ord)
       /\ pc' = "scanned"
  /\ polls' = polls + 1
  /\ idx' = 1
  /\ out' = NoLine
  /\ UNCHANGED <<steam_root, i, sleeps, prev_manifest_metric,
                 prev_folder_size, last, logFresh>>

\* if not active: the "no active downloads" line
NoActive ==
  /\ pc = "scanned"
  /\ Len(active) = 0
  /\ pc' = "endpoll"
  /\ listing' = NoScan
  /\ UNCHANGED <<steam_root, i, polls, sleeps, active, idx,
                 prev_manifest_metric, prev_folder_size, out, last, logFresh>>

\* else: the for loop over active is entered
EnterLoop ==
  /\ pc = "scanned"
  /\ Len(active) > 0
  /\ pc' = "items"
  /\ listing' = NoScan
  /\ UNCHANGED <<steam_root, i, polls, sleeps, active, idx,
                 prev_manifest_metric, prev_folder_size, out, last, logFresh>>

\* the part of one loop body that both branches share
Emit(a, source, key, value, prev, kv, log) ==
  LET delta == Delta(value, prev)
      speed_bps == SpeedBps(delta)
      paused_by_logs == detect_pause_via_logs(log)
      status == Status(speed_bps, paused_by_logs)
  IN /\ out' = [appid |-> a, source |-> source, key |-> key,
                value |-> value, prev |-> prev, delta |-> delta,
                speed |-> speed_bps, status |-> status,
                paused |-> paused_by_logs,
                primary |-> ("BytesDownloaded" \in DOMAIN kv
                              /\ kv["BytesDownloaded"].t = "dec"),
                anyKey |-> (\E k \in DOMAIN kv : kv[k].t = "dec")]
     /\ last' = [last EXCEPT ![a] =
                   [source |-> source, key |-> key, value |-> value]]
     /\ logFresh' = (logFresh \/ log \in {"other", "pause"})
     /\ idx' = idx + 1
     /\ pc' = IF idx + 1 > Len(active) THEN "endpoll" ELSE "items"

\* loop body, m_bytes is not None
ProcessManifest ==
  /\ pc = "items"
  /\ \E kv \in Manifests :
       LET a == active[idx]
           m == get_downloaded_bytes_from_manifest(kv)
       IN /\ m.res = "val"
          /\ prev_manifest_metric' = Put(prev_manifest_metric, a, m.val)
          /\ \E log \in LogStates :
               Emit(a, "manifest", m.key, m.val,
                    Get(prev_manifest_metric, a, m.val), kv, log)
  /\ listing' = NoScan
  /\ UNCHANGED <<steam_root, i, polls, sleeps, active,
                 prev_folder_size>>

\* loop body, m_bytes is None
ProcessFolder ==
  /\ pc = "items"
  /\ \E kv \in Manifests :
       LET a == active[idx]
           m == get_downloaded_bytes_from_manifest(kv)
       IN /\ m.res = "none"
          /\ \E size_now \in 0..MaxBytes, log \in LogStates :
               /\ prev_folder_size' = Put(prev_folder_size, a, size_now)
               /\ Emit(a, "folder", "none", size_now,
                       Get(prev_folder_size, a, size_now), kv, log)
  /\ listing' = NoScan
  /\ UNCHANGED <<steam_root, i, polls, sleeps, active,
                 prev_manifest_metric>>

\* loop body, int(s) raised on a value str.isdigit() accepted
ProcessRaises ==
  /\ pc = "items"
  /\ \E kv \in BadManifests :
       get_downloaded_bytes_from_manifest(kv).res = "raise"
  /\ pc' = "crashed"
  /\ out' = NoLine
  /\ listing' = NoScan
  /\ UNCHANGED <<steam_root, i, polls, sleeps, active, idx,
                 prev_manifest_metric, prev_folder_size, last, logFresh>>

\* if i < repeats - 1: time.sleep(interval)
\* (active and the loop position are dead once the body is over: the next
\* iteration rebinds them before any read)
Sleep ==
  /\ pc = "endpoll"
  /\ i < repeats - 1
  /\ sleeps' = sleeps + 1
  /\ i' = i + 1
  /\ pc' = "detect"
  /\ out' = NoLine
  /\ logFresh' = FALSE
  /\ listing' = NoScan
  /\ active' = <<>>
  /\ idx' = 1
  /\ UNCHANGED <<steam_root, polls,
                 prev_manifest_metric, prev_folder_size, last>>

\* the last iteration ends the loop without a sleep
Finish ==
  /\ pc = "endpoll"
  /\ ~(i < repeats - 1)
  /\ pc' = "done"
  /\ out' = NoLine
  /\ listing' = NoScan
  /\ active' = <<>>
  /\ idx' = 1
  /\ UNCHANGED <<steam_root, i, polls, sleeps,
                 prev_manifest_metric, prev_folder_size, last, logFresh>>

Next ==
  \/ ResolveRoot
  \/ DetectMissing
  \/ DetectRaises
  \/ DetectScan
  \/ NoActive
  \/ EnterLoop
  \/ ProcessManifest
  \/ ProcessFolder
  \/ ProcessRaises
  \/ Sleep
  \/ Finish

Spec == Init /\ [][Next]_vars

\* ----------------------------------------------------------------- claims
\* this step is the loop body run to its status line for appid a
Processing(a) == pc = "items" /\ active[idx] = a /\ idx' = idx + 1

Printed == out.appid # "none"

StoreOf(source) ==
  IF source = "manifest" THEN prev_manifest_metric ELSE prev_folder_size

SameEntry(d, e, a) ==
  /\ (a \in DOMAIN e) = (a \in DOMAIN d)
  /\ a \in DOMAIN d => e[a] = d[a]

\* C1: in every poll of every item, in either mode, the delta is
\* max(0, current - prior) with prior the value stored for the appid in that
\* mode (the current value when none is stored); a current value below the
\* prior gives delta 0, and neither the delta nor the rate is ever negative.
C1_DeltaNeverNegative ==
  [][\A a \in AppIds :
       Processing(a) =>
         LET store == StoreOf(out'.source)
             prior == IF a \in DOMAIN store THEN store[a] ELSE out'.value
         IN /\ out'.delta =
                 (IF out'.value > prior THEN out'.value - prior ELSE 0)
            /\ out'.delta >= 0
            /\ out'.speed.num >= 0 /\ out'.speed.den > 0
            /\ out'.value < prior => (out'.delta = 0 /\ out'.speed.num = 0)]_vars

\* a counter reset was polled: the value fell below the prior, the delta is 0
C1_Witness == Printed /\ out.value < out.prev /\ out.delta = 0

\* C2: the first poll in which an appid is observed yields delta 0, rate 0
\* and a status other than downloading, whatever the value observed.
C2_FirstObservationZero ==
  [][\A a \in AppIds :
       (Processing(a) /\ last[a] = NoObs) =>
         /\ out'.delta = 0
         /\ out'.speed.num = 0
         /\ out'.status \in {"idle/paused", "paused"}]_vars

\* a first observation of a non-zero value, in the first poll
C2_Witness ==
  /\ i = 0 /\ Printed
  /\ out.value = MaxBytes /\ out.delta = 0 /\ out.status = "idle/paused"

\* C3: for an item polled in manifest mode on the BytesDownloaded counter,
\* as at its previous poll, the status is downloading exactly when the
\* counter is strictly above its value at that previous poll, and otherwise
\* idle/paused or paused (idle/paused when the log holds no pause).
C3_DownloadingIffIncreased ==
  [][\A a \in AppIds :
       (/\ Processing(a)
        /\ out'.source = "manifest" /\ out'.key = "BytesDownloaded"
        /\ last[a].source = "manifest" /\ last[a].key = "BytesDownloaded") =>
         /\ (out'.status = "downloading") = (out'.value > last[a].value)
         /\ out'.status # "downloading" =>
              out'.status = (IF out'.paused THEN "paused" ELSE "idle/paused")]_vars

\* a poll that found BytesDownloaded above its previous value: downloading
C3_Witness ==
  /\ i >= 1 /\ Printed
  /\ out.source = "manifest" /\ out.key = "BytesDownloaded"
  /\ out.value > out.prev /\ out.status = "downloading" /\ ~out.paused

\* C4: no step changes the stored prior state of an appid other than the
\* one whose loop body it runs, so a poll leaves the state of the appids
\* outside its candidate set as it was; an appid polled again in the mode of
\* its last observation gets its delta against the value observed then.
C4_AbsentStateRetained ==
  [][\A a \in AppIds :
       /\ (pc = "items" /\ active[idx] = a)
            \/ (/\ SameEntry(prev_manifest_metric, prev_manifest_metric', a)
                /\ SameEntry(prev_folder_size, prev_folder_size', a))
       /\ (Processing(a) /\ last[a].source = out'.source) =>
            out'.delta = (IF out'.value > last[a].value
                          THEN out'.value - last[a].value ELSE 0)]_vars

\* a poll over another appid has ended and this one's prior is still stored
C4_Witness ==
  /\ pc = "endpoll" /\ Len(active) > 0
  /\ \E a \in AppIds \ Range(active) :
       /\ a \in DOMAIN prev_manifest_metric
       /\ prev_manifest_metric[a] = MaxBytes
       /\ a \in DOMAIN prev_folder_size

\* C5: once an item's status line is printed, the store of the mode chosen
\* for it holds the value observed in this poll, whatever the delta and the
\* status were.
C5_PriorIsObserved ==
  Printed =>
    /\ out.appid \in DOMAIN StoreOf(out.source)
    /\ StoreOf(out.source)[out.appid] = out.value

\* the value fell, the delta is 0, the status is not downloading: still stored
C5_Witness ==
  /\ Printed /\ out.value < out.prev /\ out.delta = 0
  /\ out.status = "idle/paused"
  /\ StoreOf(out.source)[out.appid] = out.value

\* C6 as stated: when no non-empty log read is recent (none since the last
\* sleep of 60 s, the window being 10 s; none ever, at first), the rate of
\* the item polled is 0 and it is not classified downloading.
C6_Original ==
  [][\A a \in AppIds :
       (Processing(a) /\ ~logFresh) =>
         (out'.speed.num = 0 /\ out'.status # "downloading")]_vars

\* C6 amended: the rate printed is the delta over the interval whatever the
\* log reads were; the status is downloading exactly when the delta is
\* positive, and the log only picks paused over idle/paused at delta 0.
C6_RateIgnoresLogAge ==
  Printed =>
    /\ out.speed.num = out.delta
    /\ out.speed.den = interval
    /\ (out.status = "downloading") = (out.delta > 0)
    /\ (out.status = "paused") = (out.delta = 0 /\ out.paused)
    /\ (out.status = "idle/paused") = (out.delta = 0 /\ ~out.paused)

\* an item is downloading in a poll with no non-empty log read at all
C6_Witness ==
  Printed /\ ~logFresh /\ out.delta > 0 /\ out.status = "downloading"

C8_Original ==
  /\ pc \in {"done", "crashed"} => (polls = repeats /\ sleeps = repeats - 1)
  /\ pc \in {"scanned", "items", "endpoll"} => (polls = sleeps + 1)
  /\ pc = "detect" => polls = sleeps

\* C9 as stated: nothing the client does to the file system ends the
\* polling loop early; only an unresolved root ends the program.
C9_Original == pc # "crashed"

\* C10 as stated: manifest mode is used exactly when BytesDownloaded is
\* present with a numeric value.
C10_Original == Printed => ((out.source = "manifest") = out.primary)

\* C10 amended: whenever a status line is printed, manifest mode was used
\* exactly when some candidate key of the manifest held a decimal value
\* (BytesToDownload or SizeOnDisk included), the first such key giving the
\* metric; otherwise folder mode was used, with the delta against the
\* folder-size snapshot and the manifest-mode prior left as it was.
C10_ModeByAnyCandidateKey ==
  [][\A a \in AppIds :
       Processing(a) =>
         /\ (out'.source = "manifest") = out'.anyKey
         /\ out'.primary => out'.key = "BytesDownloaded"
         /\ out'.source = "manifest" =>
              /\ out'.key \in Range(candidates)
              /\ prev_folder_size' = prev_folder_size
         /\ out'.source # "manifest" =>
              /\ out'.source = "folder"
              /\ prev_manifest_metric' = prev_manifest_metric
              /\ out'.delta =
                   (IF a \in DOMAIN prev_folder_size
                       /\ out'.value > prev_folder_size[a]
                    THEN out'.value - prev_folder_size[a] ELSE 0)]_vars

\* manifest mode on BytesToDownload, BytesDownloaded being absent or text
C10_Witness ==
  /\ Printed /\ out.source = "manifest" /\ out.key = "BytesToDownload"
  /\ ~out.primary /\ out.delta > 0

====
